---- MODULE Spec2Model ----
(***************************************************************************)
(* Model of the transaction pool of src/src/lib.rs: Pool::new, get,        *)
(* import, erase, apply_block and revert_block, over a fixed account-info  *)
(* provider and a small universe of signed transactions.                   *)
(***************************************************************************)
EXTENDS Integers, Sequences, FiniteSets, TLC

VARIABLES block, by_hash, by_sender, overflow_checks, aborted, last

vars == <<block, by_hash, by_sender, overflow_checks, aborted, last>>

(***************************************************************************)
(* Bounds and widths.                                                      *)
(***************************************************************************)

\* Largest ordinary block height the chain follower reports.
MaxBlock == 1

\* u64::MAX, with the width scaled down so that it fits the checker's integers.
U64Max == 65535

(***************************************************************************)
(* Transactions.  A Transaction is its nonce, gas_price, gas_limit, an     *)
(* opaque payload and its signature; the signature is represented by the   *)
(* address that signature recovery yields, or NoSigner when recovery fails.*)
(***************************************************************************)

NoSigner == "none"

Tx(n, p, l, d, s) ==
    [nonce |-> n, gas_price |-> p, gas_limit |-> l, payload |-> d, signer |-> s]

\* the transactions of the first provider snapshot of A (balance 1000, nonce 5)
tx_5a == Tx(5, 10, 21, "a", "A")
tx_5b == Tx(5, 20, 21, "b", "A")
tx_5c == Tx(5, 20, 21, "c", "A")
tx_5big == Tx(5, 60, 21, "d", "A")
tx_4 == Tx(4, 10, 21, "e", "A")
tx_6 == Tx(6, 10, 21, "f", "A")
tx_B == Tx(0, 10, 21, "g", "B")
tx_bad == Tx(5, 10, 21, "h", NoSigner)
tx_huge == Tx(U64Max + 1, 10, 21, "i", "A")
tx_B1 == Tx(1, 10, 21, "j", "B")

Transactions ==
    {tx_5a, tx_5b, tx_5c, tx_5big, tx_4, tx_6, tx_B, tx_bad, tx_huge, tx_B1}

NoTx == Tx(0, 0, 0, "none", NoSigner)

Address == {"A", "B"}

\* Keccak256(RLP(tx)): a collision-free function of the whole signed transaction.
Hash(tx) == <<tx.nonce, tx.gas_price, tx.gas_limit, tx.payload, tx.signer>>

Err == [err |-> TRUE]

\* RichTransaction::try_from: hash and recovered sender, or an error.
try_from(tx) ==
    IF tx.signer = NoSigner
    THEN Err
    ELSE [inner |-> tx, sender |-> tx.signer, hash |-> Hash(tx)]

\* RichTransaction::cost
cost(rich) == rich.inner.gas_limit * rich.inner.gas_price

(***************************************************************************)
(* The account-info provider: HashMap<u64, HashMap<Address, AccountInfo>>. *)
(***************************************************************************)

None == [none |-> TRUE]

AccountInfo(b, n) == [balance |-> b, nonce |-> n]

\* the embedder's table: A is known from block 0 and has one transaction
\* confirmed in block 1; B appears in block 1.
data_provider ==
    [b \in 0..(MaxBlock + 1) |->
        IF b = 0
        THEN [a \in {"A"} |-> AccountInfo(1000, 5)]
        ELSE [a \in {"A", "B"} |->
                IF a = "A" THEN AccountInfo(790, 6) ELSE AccountInfo(300, 0)]]

get_account_info(b, account) ==
    IF b \in DOMAIN data_provider
    THEN IF account \in DOMAIN data_provider[b]
         THEN data_provider[b][account]
         ELSE None
    ELSE None

(***************************************************************************)
(* Maps.                                                                   *)
(***************************************************************************)

EmptyMap == [x \in {} |-> x]

MapInsert(m, k, v) == [x \in DOMAIN m \cup {k} |-> IF x = k THEN v ELSE m[x]]

MapRemove(m, ks) == [x \in DOMAIN m \ ks |-> m[x]]

\* AccountPool created for a new sender
AccountPool(info) ==
    [nonce_offset |-> info.nonce, balance |-> info.balance, txs |-> <<>>]

\* Pool::get
get(hash) ==
    IF hash \in DOMAIN by_hash THEN by_hash[hash].inner ELSE None

(***************************************************************************)
(* Pool::import.  An outcome is the result returned to the caller and the  *)
(* two indexes as the call leaves them; "Panic" is an aborted call.        *)
(***************************************************************************)

Outcome(res, bh, bs) == [res |-> res, by_hash |-> bh, by_sender |-> bs]

ImportErrors ==
    {"InvalidTransaction", "NonceGap", "StaleTransaction", "InvalidSender",
     "FeeTooLow", "InsufficientBalance", "Other"}

\* U256 subtraction panics on underflow; Underflow stands for that panic.
Underflow == -1

checked_sub(a, b) == IF a >= b THEN a - b ELSE Underflow

\* txs.iter().take(n).fold(balance, |balance, tx| balance - tx.cost())
RECURSIVE FoldBalance(_, _, _)
FoldBalance(balance, txs, n) ==
    IF n = 0 \/ txs = <<>>
    THEN balance
    ELSE LET rest == checked_sub(balance, cost(Head(txs)))
         IN  IF rest = Underflow
             THEN Underflow
             ELSE FoldBalance(rest, Tail(txs), n - 1)

\* the loop that selects the tail to drop: the first index i >= from (0-based)
\* whose cost the running balance cannot pay, or Len(txs) when all are paid.
RECURSIVE SplitIndex(_, _, _)
SplitIndex(txs, i, cumulative_balance) ==
    IF i >= Len(txs)
    THEN Len(txs)
    ELSE LET balance == checked_sub(cumulative_balance, cost(txs[i + 1]))
         IN  IF balance = Underflow
             THEN i
             ELSE SplitIndex(txs, i + 1, balance)

\* a duplicate check that never finds the hash
OccupiedNever(bh, hash) == FALSE

\* the by_hash entry taken at the top of import: Occupied or Vacant
Occupied(bh, hash) == hash \in DOMAIN bh

\* the slot test: the nonce is inside the queue or right after its end
InQueueOrNext(offset, txs) == offset <= Len(txs)

\* the replacement test on gas price
FeeTooLow(pooled_tx, tx) == pooled_tx.inner.gas_price >= tx.inner.gas_price

\* an index that took the transaction before it was validated
IndexedBeforeValidation(bh, tx) == MapInsert(bh, tx.hash, tx)

\* the hash index that an import returning an error leaves behind: the
\* Vacant entry is dropped unused.
IndexOnError(bh, tx) == bh

\* the admission of tx into the queue of its sender, whose entry is in bs
Admit(bh, bs, tx) ==
    LET account_pool == bs[tx.sender]
        nonce == tx.inner.nonce
    IN
    IF nonce < account_pool.nonce_offset
    THEN Outcome("StaleTransaction", IndexOnError(bh, tx), bs)
    ELSE
    LET offset == nonce - account_pool.nonce_offset IN
    IF ~InQueueOrNext(offset, account_pool.txs)
    THEN Outcome("NonceGap", IndexOnError(bh, tx), bs)
    ELSE
    LET prefix_balance == FoldBalance(account_pool.balance, account_pool.txs, offset) IN
    IF prefix_balance = Underflow
    THEN Outcome("Panic", bh, bs)
    ELSE
    LET replacing == offset < Len(account_pool.txs)
        pooled_tx == account_pool.txs[offset + 1]
    IN
    IF replacing /\ FeeTooLow(pooled_tx, tx)
    THEN Outcome("FeeTooLow", IndexOnError(bh, tx), bs)
    ELSE IF replacing /\ checked_sub(prefix_balance, cost(tx)) = Underflow
    THEN Outcome("InsufficientBalance", IndexOnError(bh, tx), bs)
    ELSE
    LET \* std::mem::swap(&mut tx, pooled_tx): the slot takes the new
        \* transaction and the local tx becomes the old one
        swapped_txs == IF replacing
                       THEN [account_pool.txs EXCEPT ![offset + 1] = tx]
                       ELSE account_pool.txs
        local_tx == IF replacing THEN pooled_tx ELSE tx
        i == SplitIndex(swapped_txs, offset, prefix_balance)
        kept == SubSeq(swapped_txs, 1, i)
        dropping == SubSeq(swapped_txs, i + 1, Len(swapped_txs))
        \* tx_by_hash_entry.insert(tx): the entry's key is the imported hash
        inserted == MapInsert(bh, tx.hash, local_tx)
        removed == MapRemove(inserted, {dropping[k].hash : k \in 1..Len(dropping)})
    IN  Outcome("OkTrue", removed,
                [bs EXCEPT ![tx.sender] = [account_pool EXCEPT !.txs = kept]])

import(bh, bs, head, transaction) ==
    LET tx == try_from(transaction) IN
    IF tx = Err
    THEN Outcome("InvalidTransaction", bh, bs)
    ELSE IF tx.inner.nonce > U64Max
    THEN Outcome("InvalidTransaction", bh, bs)
    ELSE IF Occupied(bh, tx.hash)
    THEN Outcome("OkFalse", bh, bs)
    ELSE IF tx.sender \in DOMAIN bs
    THEN Admit(bh, bs, tx)
    ELSE LET info == get_account_info(head, tx.sender) IN
         IF info = None
         THEN Outcome("InvalidSender", IndexOnError(bh, tx), bs)
         ELSE Admit(bh, MapInsert(bs, tx.sender, AccountPool(info)), tx)

(***************************************************************************)
(* Pool::apply_block and Pool::revert_block.                               *)
(***************************************************************************)

\* the group of one sender in block_txs_by_sender: None (poisoned) or a
\* BTreeMap from nonce to transaction
Group(poisoned, txs) == [poisoned |-> poisoned, txs |-> txs]

\* the first loop of apply_block_inner: enrich and group by sender
RECURSIVE GroupBySender(_, _)
GroupBySender(txs, acc) ==
    IF txs = <<>>
    THEN acc
    ELSE
    LET tx == try_from(Head(txs)) IN
    IF tx = Err
    THEN Err
    ELSE
    LET poisoned == IF tx.inner.nonce > U64Max
                    THEN MapInsert(acc, tx.sender, Group(TRUE, EmptyMap))
                    ELSE acc
        entered == IF tx.sender \in DOMAIN poisoned
                   THEN poisoned
                   ELSE MapInsert(poisoned, tx.sender, Group(FALSE, EmptyMap))
        inserted == IF entered[tx.sender].poisoned
                    THEN entered
                    ELSE [entered EXCEPT ![tx.sender].txs =
                              MapInsert(@, tx.inner.nonce, tx)]
    IN  GroupBySender(Tail(txs), inserted)

Min(S) == CHOOSE x \in S : \A y \in S : x <= y

Culled(bh, pool, validation_error, panic) ==
    [by_hash |-> bh, pool |-> pool, validation_error |-> validation_error,
     panic |-> panic]

\* the walk over one sender's block transactions in nonce order
RECURSIVE CullConfirmed(_, _, _, _)
CullConfirmed(bh, pool, txs, nonces) ==
    IF nonces = {}
    THEN Culled(bh, pool, FALSE, FALSE)
    ELSE
    LET nonce == Min(nonces)
        tx == txs[nonce]
    IN
    IF nonce # pool.nonce_offset
    THEN Culled(bh, pool, TRUE, FALSE)
    ELSE IF pool.txs = <<>>
    THEN Culled(bh, pool, TRUE, FALSE)
    ELSE
    LET front_tx == Head(pool.txs)
        popped == [pool EXCEPT !.txs = Tail(pool.txs)]
    IN
    \* assert!(self.by_hash.remove(&tx.hash).is_some())
    IF tx.hash \notin DOMAIN bh
    THEN Culled(bh, popped, FALSE, TRUE)
    ELSE IF front_tx.hash # tx.hash
    THEN Culled(MapRemove(bh, {tx.hash}), popped, TRUE, FALSE)
    ELSE CullConfirmed(MapRemove(bh, {tx.hash}),
                       [popped EXCEPT !.nonce_offset = @ + 1],
                       txs, nonces \ {nonce})

Dropped(bh, panic) == [by_hash |-> bh, panic |-> panic]

\* for tx in pool.txs { assert!(self.by_hash.remove(&tx.hash).is_some()) }
RECURSIVE DropSender(_, _)
DropSender(bh, txs) ==
    IF txs = <<>>
    THEN Dropped(bh, FALSE)
    ELSE IF Head(txs).hash \notin DOMAIN bh
    THEN Dropped(bh, TRUE)
    ELSE DropSender(MapRemove(bh, {Head(txs).hash}), Tail(txs))

\* one iteration of the second loop of apply_block_inner
CullSender(bh, bs, sender, group) ==
    IF sender \notin DOMAIN bs
    THEN Outcome("Ok", bh, bs)
    ELSE
    LET culled == IF group.poisoned
                  THEN Culled(bh, bs[sender], TRUE, FALSE)
                  ELSE CullConfirmed(bh, bs[sender], group.txs, DOMAIN group.txs)
    IN
    IF culled.panic
    THEN Outcome("Panic", bh, bs)
    ELSE IF culled.validation_error
    THEN LET dropped == DropSender(culled.by_hash, culled.pool.txs) IN
         IF dropped.panic
         THEN Outcome("Panic", bh, bs)
         ELSE Outcome("Ok", dropped.by_hash, MapRemove(bs, {sender}))
    ELSE Outcome("Ok", culled.by_hash, [bs EXCEPT ![sender] = culled.pool])

\* the second loop of apply_block_inner.  The senders are visited in the
\* HashMap's order; each visit touches only that sender's entry and hashes,
\* so one order stands for all.
RECURSIVE CullSenders(_, _, _, _)
CullSenders(bh, bs, groups, senders) ==
    IF senders = {}
    THEN Outcome("Ok", bh, bs)
    ELSE
    LET sender == CHOOSE a \in senders : TRUE
        out == CullSender(bh, bs, sender, groups[sender])
    IN  IF out.res = "Panic"
        THEN out
        ELSE CullSenders(out.by_hash, out.by_sender, groups, senders \ {sender})

\* u64 addition and subtraction: a build with overflow checks panics, one
\* without wraps.
Overflows(head) == head = U64Max

Underflows(head) == head = 0

wrapping_add1(head) == (head + 1) % (U64Max + 1)

wrapping_sub1(head) == (head + U64Max) % (U64Max + 1)

apply_block_inner(bh, bs, head, checks, b, txs) ==
    IF Overflows(head) /\ checks
    THEN Outcome("Panic", bh, bs)
    ELSE IF wrapping_add1(head) # b
    THEN Outcome("Err", bh, bs)
    ELSE
    LET groups == GroupBySender(txs, EmptyMap) IN
    IF groups = Err
    THEN Outcome("Err", bh, bs)
    ELSE CullSenders(bh, bs, groups, DOMAIN groups)

\* the loop of revert_block_inner
RECURSIVE DropSenders(_, _, _)
DropSenders(bh, bs, txs) ==
    IF txs = <<>>
    THEN Outcome("Ok", bh, bs)
    ELSE
    LET tx == try_from(Head(txs)) IN
    IF tx = Err
    THEN Outcome("Err", bh, bs)
    ELSE IF tx.sender \notin DOMAIN bs
    THEN DropSenders(bh, bs, Tail(txs))
    ELSE LET dropped == DropSender(bh, bs[tx.sender].txs) IN
         IF dropped.panic
         THEN Outcome("Panic", bh, bs)
         ELSE DropSenders(dropped.by_hash, MapRemove(bs, {tx.sender}), Tail(txs))

revert_block_inner(bh, bs, head, checks, b, txs) ==
    IF Underflows(head) /\ checks
    THEN Outcome("Panic", bh, bs)
    ELSE IF wrapping_sub1(head) # b
    THEN \* the bail! message evaluates self.block + 1
         IF Overflows(head) /\ checks
         THEN Outcome("Panic", bh, bs)
         ELSE Outcome("Err", bh, bs)
    ELSE DropSenders(bh, bs, txs)

\* the wrapper of both: on Err, warn and erase
ResetOnError(out) ==
    IF out.res = "Err"
    THEN Outcome("Err", EmptyMap, EmptyMap)
    ELSE out

\* Pool::apply_block: the indexes and the head it leaves
apply_block(bh, bs, head, checks, b, txs) ==
    LET out == ResetOnError(apply_block_inner(bh, bs, head, checks, b, txs)) IN
    [res |-> out.res, by_hash |-> out.by_hash, by_sender |-> out.by_sender,
     block |-> IF out.res = "Panic" THEN head ELSE b]

\* Pool::revert_block: the indexes and the head it leaves
revert_block(bh, bs, head, checks, b, txs) ==
    LET out == ResetOnError(revert_block_inner(bh, bs, head, checks, b, txs)) IN
    [res |-> out.res, by_hash |-> out.by_hash, by_sender |-> out.by_sender,
     block |-> IF out.res = "Panic" THEN head ELSE b]

BlockNumbers == 0..MaxBlock \cup {U64Max}

\* the block bodies the chain follower hands over
BlockBodies ==
    {<<>>, <<tx_5a>>, <<tx_5b>>, <<tx_6>>, <<tx_B>>, <<tx_bad>>, <<tx_huge>>,
     <<tx_5a, tx_6>>, <<tx_5a, tx_B>>}

(***************************************************************************)
(* State machine.                                                          *)
(***************************************************************************)

\* the record of the latest call: its operation, arguments and result, and
\* the parity of the number of calls made so far
Call(op, tx, b, txs, res, seq) ==
    [op |-> op, tx |-> tx, block |-> b, txs |-> txs, res |-> res, seq |-> seq]

\* Pool::new(0, data_provider), in a build with or without overflow checks
Init ==
    /\ block = 0
    /\ by_hash = EmptyMap
    /\ by_sender = EmptyMap
    /\ overflow_checks \in BOOLEAN
    /\ aborted = FALSE
    /\ last = Call("new", NoTx, 0, <<>>, "Ok", 0)

Import ==
    /\ ~aborted
    /\ \E transaction \in Transactions :
        LET out == import(by_hash, by_sender, block, transaction) IN
        /\ last' = Call("import", transaction, 0, <<>>, out.res, 1 - last.seq)
        /\ aborted' = (out.res = "Panic")
        /\ by_hash' = out.by_hash
        /\ by_sender' = out.by_sender
        /\ UNCHANGED <<block, overflow_checks>>

\* Pool::erase
Erase ==
    /\ ~aborted
    /\ by_hash' = EmptyMap
    /\ by_sender' = EmptyMap
    /\ last' = Call("erase", NoTx, 0, <<>>, "Ok", 1 - last.seq)
    /\ UNCHANGED <<block, overflow_checks, aborted>>

ApplyBlock ==
    /\ ~aborted
    /\ \E b \in BlockNumbers, txs \in BlockBodies :
        LET out == apply_block(by_hash, by_sender, block, overflow_checks, b, txs)
        IN
        /\ last' = Call("apply_block", NoTx, b, txs, out.res, 1 - last.seq)
        /\ aborted' = (out.res = "Panic")
        /\ by_hash' = out.by_hash
        /\ by_sender' = out.by_sender
        /\ block' = out.block
        /\ UNCHANGED overflow_checks

RevertBlock ==
    /\ ~aborted
    /\ \E b \in BlockNumbers, txs \in BlockBodies :
        LET out == revert_block(by_hash, by_sender, block, overflow_checks, b, txs)
        IN
        /\ last' = Call("revert_block", NoTx, b, txs, out.res, 1 - last.seq)
        /\ aborted' = (out.res = "Panic")
        /\ by_hash' = out.by_hash
        /\ by_sender' = out.by_sender
        /\ block' = out.block
        /\ UNCHANGED overflow_checks

Next == Import \/ Erase \/ ApplyBlock \/ RevertBlock

Spec == Init /\ [][Next]_vars

(***************************************************************************)
(* The same pool driven by a chain follower that hands over the blocks of  *)
(* the chain data_provider reports: block 1 confirms tx_5a of A (nonce 5   *)
(* to 6, its cost paid) and credits B; later blocks are empty.             *)
(***************************************************************************)

\* the body of block b of that chain
Chain(b) == IF b = 1 THEN <<tx_5a>> ELSE <<>>

\* apply_block(block + 1, body of block + 1)
ApplyChainBlock ==
    /\ ~aborted
    /\ block < MaxBlock
    /\ LET out == apply_block(by_hash, by_sender, block, overflow_checks,
                              block + 1, Chain(block + 1))
       IN
       /\ last' = Call("apply_block", NoTx, block + 1, Chain(block + 1), out.res,
                       1 - last.seq)
       /\ aborted' = (out.res = "Panic")
       /\ by_hash' = out.by_hash
       /\ by_sender' = out.by_sender
       /\ block' = out.block
       /\ UNCHANGED overflow_checks

\* revert_block(block - 1, body of block)
RevertChainBlock ==
    /\ ~aborted
    /\ block >= 1
    /\ LET out == revert_block(by_hash, by_sender, block, overflow_checks,
                               block - 1, Chain(block))
       IN
       /\ last' = Call("revert_block", NoTx, block - 1, Chain(block), out.res,
                       1 - last.seq)
       /\ aborted' = (out.res = "Panic")
       /\ by_hash' = out.by_hash
       /\ by_sender' = out.by_sender
       /\ block' = out.block
       /\ UNCHANGED overflow_checks

NextChain == Import \/ Erase \/ ApplyChainBlock \/ RevertChainBlock

SpecChain == Init /\ [][NextChain]_vars

(***************************************************************************)
(* Properties.                                                             *)
(***************************************************************************)

\* every per-sender queue is empty in every reachable state: import inserts
\* into by_hash only and nothing ever pushes onto AccountPool.txs
QueuesStayEmpty == \A a \in DOMAIN by_sender : by_sender[a].txs = <<>>

\* the senders whose queue holds the transaction t
Holders(t) ==
    {a \in DOMAIN by_sender :
        \E i \in 1..Len(by_sender[a].txs) : by_sender[a].txs[i] = t}

\* C1: the hash index and the per-sender queues are in one-to-one
\* correspondence: every entry h -> t of by_hash has t.hash = h and t is held
\* by exactly one queue, and every queued transaction is the value of by_hash
\* at its own hash.
C1_IndexConsistency ==
    /\ \A h \in DOMAIN by_hash :
        /\ by_hash[h].hash = h
        /\ Cardinality(Holders(by_hash[h])) = 1
    /\ \A a \in DOMAIN by_sender :
        \A i \in 1..Len(by_sender[a].txs) :
            LET t == by_sender[a].txs[i] IN
            /\ t.hash \in DOMAIN by_hash
            /\ by_hash[t.hash] = t

\* C2: right after an import that returned Ok(true) for tx, tx is in its
\* sender's queue at index tx.nonce - nonce_offset and by_hash[tx.hash] is tx.
C2_AdmittedAtItsSlot ==
    (last.op = "import" /\ last.res = "OkTrue") =>
        LET tx == try_from(last.tx) IN
        /\ tx.sender \in DOMAIN by_sender
        /\ LET pool == by_sender[tx.sender]
               offset == tx.inner.nonce - pool.nonce_offset
           IN  /\ offset >= 0
               /\ offset < Len(pool.txs)
               /\ pool.txs[offset + 1] = tx
        /\ tx.hash \in DOMAIN by_hash
        /\ by_hash[tx.hash] = tx

\* C3: a transaction whose nonce is one past a transaction of the same sender
\* that was just admitted with Ok(true) is never rejected with NonceGap:
\* consecutive nonces can be imported one after another.
C3_NextNonceIsAppended ==
    [][(/\ last.op = "import"
        /\ last.res = "OkTrue"
        /\ last'.op = "import"
        /\ last'.seq # last.seq
        /\ last'.tx.signer = last.tx.signer
        /\ last'.tx.nonce = last.tx.nonce + 1)
       => last'.res # "NonceGap"]_vars

\* the queue of sender a, empty when a has no entry
QueueOf(bs, a) == IF a \in DOMAIN bs THEN bs[a].txs ELSE <<>>

\* the sum of the costs of the first n transactions of txs
RECURSIVE CostOfFirst(_, _)
CostOfFirst(txs, n) ==
    IF n = 0 \/ txs = <<>>
    THEN 0
    ELSE cost(Head(txs)) + CostOfFirst(Tail(txs), n - 1)

\* the import of transaction t, new to the pool, reaches a slot of the queue
\* of its sender (an append or a replacement that wins on fee) and its cost
\* is more than the sender's balance less the costs queued before that slot
Unaffordable(bh, queue, pool, t) ==
    LET tx == try_from(t)
        offset == t.nonce - pool.nonce_offset
    IN  /\ tx # Err
        /\ t.nonce <= U64Max
        /\ tx.hash \notin DOMAIN bh
        /\ offset >= 0
        /\ offset <= Len(queue)
        /\ offset < Len(queue) => queue[offset + 1].inner.gas_price < t.gas_price
        /\ cost(tx) > pool.balance - CostOfFirst(queue, offset)

\* C4: an import (append or replacement) whose own cost exceeds the sender's
\* balance minus the costs queued before its slot returns InsufficientBalance
\* and leaves by_hash and every per-sender queue unchanged.
C4_UnaffordableRejected ==
    [][(/\ last'.op = "import"
        /\ last'.seq # last.seq
        /\ last'.tx.signer \in DOMAIN by_sender'
        /\ Unaffordable(by_hash, QueueOf(by_sender, last'.tx.signer),
                        by_sender'[last'.tx.signer], last'.tx))
       => /\ last'.res = "InsufficientBalance"
          /\ by_hash' = by_hash
          /\ \A a \in DOMAIN by_sender \cup DOMAIN by_sender' :
                QueueOf(by_sender', a) = QueueOf(by_sender, a)]_vars

C6_LowerFeeRejected ==
    (last.op = "import" /\ last.res = "OkTrue") =>
        \A t \in Transactions :
            (/\ t # last.tx
             /\ t.signer = last.tx.signer
             /\ t.nonce = last.tx.nonce
             /\ t.gas_price <= last.tx.gas_price)
            => LET out == import(by_hash, by_sender, block, t) IN
               /\ out.res = "FeeTooLow"
               /\ out.by_hash = by_hash
               /\ out.by_sender = by_sender

\* C7: right after tx_old was admitted with Ok(true), importing a different,
\* affordable transaction tx_new of the same sender with the same nonce and a
\* strictly greater gas price returns Ok(true); afterwards tx_old.hash is not
\* a key of by_hash, get(tx_new.hash) is tx_new, and the sender's queue holds
\* tx_new in the slot of tx_old.
C7_HigherFeeReplaces ==
    [][(/\ last.op = "import"
        /\ last.res = "OkTrue"
        /\ last'.op = "import"
        /\ last'.seq # last.seq
        /\ last'.tx # last.tx
        /\ last'.tx.signer = last.tx.signer
        /\ last'.tx.nonce = last.tx.nonce
        /\ last'.tx.gas_price > last.tx.gas_price
        /\ Hash(last'.tx) \notin DOMAIN by_hash
        /\ LET pool == by_sender[last.tx.signer] IN
           cost(try_from(last'.tx)) <=
               pool.balance
                   - CostOfFirst(pool.txs, last.tx.nonce - pool.nonce_offset))
       => /\ last'.res = "OkTrue"
          /\ Hash(last.tx) \notin DOMAIN by_hash'
          /\ Hash(last'.tx) \in DOMAIN by_hash'
          /\ by_hash'[Hash(last'.tx)].inner = last'.tx
          /\ LET pool == by_sender'[last.tx.signer]
                 offset == last.tx.nonce - pool.nonce_offset
             IN  /\ offset < Len(pool.txs)
                 /\ pool.txs[offset + 1].inner = last'.tx]_vars

\* an entry that is absent or has an empty queue
EmptyOrAbsent(bs, a) == a \notin DOMAIN bs \/ bs[a].txs = <<>>

\* C9: whenever import returns an error, block and by_hash are as before the
\* call and so is every per-sender entry, except that an entry of the
\* transaction's sender that is empty or absent before the call may be
\* empty or absent after it.
C9_ErrorLeavesPoolUnchanged ==
    [][(last'.op = "import" /\ last'.seq # last.seq /\ last'.res \in ImportErrors)
       => /\ block' = block
          /\ by_hash' = by_hash
          /\ \A a \in DOMAIN by_sender \cup DOMAIN by_sender' :
              \/ /\ a \in DOMAIN by_sender
                 /\ a \in DOMAIN by_sender'
                 /\ by_sender'[a] = by_sender[a]
              \/ /\ a = last'.tx.signer
                 /\ EmptyOrAbsent(by_sender, a)
                 /\ EmptyOrAbsent(by_sender', a)]_vars

\* C9 witness: an import has just failed on its nonce, leaving an empty
\* entry for its sender beside a non-empty hash index
C9_Witness ==
    /\ last.op = "import"
    /\ last.res \in {"StaleTransaction", "NonceGap"}
    /\ last.tx.signer \in DOMAIN by_sender
    /\ by_sender[last.tx.signer].txs = <<>>
    /\ DOMAIN by_hash # {}

\* the hashes in by_hash of the transactions of sender a
HashesOf(bh, a) == {h \in DOMAIN bh : bh[h].sender = a}

\* C10: when t0, at the sender's nonce_offset N, is the sender's only pending
\* transaction (just admitted with Ok(true)) at head b, apply_block(b+1, [t0])
\* leaves the sender's queue empty with nonce_offset N+1, removes t0.hash
\* from by_hash and sets block to b+1.
C10_ApplyBlockConfirmsFront ==
    [][(/\ last.op = "import"
        /\ last.res = "OkTrue"
        /\ HashesOf(by_hash, last.tx.signer) = {Hash(last.tx)}
        /\ last.tx.nonce = by_sender[last.tx.signer].nonce_offset
        /\ last'.op = "apply_block"
        /\ last'.seq # last.seq
        /\ last'.block = block + 1
        /\ last'.txs = <<last.tx>>)
       => /\ last'.res = "Ok"
          /\ block' = block + 1
          /\ Hash(last.tx) \notin DOMAIN by_hash'
          /\ last.tx.signer \in DOMAIN by_sender'
          /\ by_sender'[last.tx.signer].txs = <<>>
          /\ by_sender'[last.tx.signer].nonce_offset =
                 by_sender[last.tx.signer].nonce_offset + 1]_vars

\* the senders of the transactions of a block body that can be enriched
SendersOf(txs) ==
    {txs[i].signer : i \in {j \in 1..Len(txs) : txs[j].signer # NoSigner}}

\* C11: when t0, at the sender's nonce_offset, is the sender's only pending
\* transaction (just admitted with Ok(true)) at head b, and apply_block(b+1,
\* txs) holds one transaction of that sender with the same nonce and another
\* hash that is not in the pool, then apply_block does not abort, the
\* sender's entry is removed, none of the sender's hashes is left in by_hash
\* and block is b+1.
C11_MismatchDropsSender ==
    [][(/\ last.op = "import"
        /\ last.res = "OkTrue"
        /\ HashesOf(by_hash, last.tx.signer) = {Hash(last.tx)}
        /\ last.tx.nonce = by_sender[last.tx.signer].nonce_offset
        /\ last'.op = "apply_block"
        /\ last'.seq # last.seq
        /\ last'.block = block + 1
        /\ Len(last'.txs) = 1
        /\ last'.txs[1].signer = last.tx.signer
        /\ last'.txs[1].nonce = last.tx.nonce
        /\ last'.txs[1] # last.tx)
       => /\ last'.res = "Ok"
          /\ ~aborted'
          /\ block' = block + 1
          /\ last.tx.signer \notin DOMAIN by_sender'
          /\ HashesOf(by_hash', last.tx.signer) = {}]_vars

\* C12: every apply_block leaves block equal to its block argument, and one
\* whose argument is not block + 1 leaves by_hash and by_sender empty.
C12_BlockGapResets ==
    [][(last'.op = "apply_block" /\ last'.seq # last.seq)
       => /\ block' = last'.block
          /\ last'.block # block + 1
                => (DOMAIN by_hash' = {} /\ DOMAIN by_sender' = {})]_vars

\* for heads below u64::MAX, apply_block with an argument other than head + 1
\* erases the pool and sets the head
ApplyBlockResetsBelowMax ==
    [][(last'.op = "apply_block" /\ last'.seq # last.seq /\ block < U64Max)
       => /\ block' = last'.block
          /\ last'.block # block + 1
                => (DOMAIN by_hash' = {} /\ DOMAIN by_sender' = {})]_vars

\* C13: after revert_block(block - 1, txs), issued right after a transaction
\* t0 was admitted with Ok(true), when txs holds a transaction of t0's
\* sender: the sender's entry is gone, t0.hash is not a key of by_hash, get
\* does not return t0, and block is the block argument.
C13_RevertDropsSender ==
    [][(/\ last.op = "import"
        /\ last.res = "OkTrue"
        /\ last'.op = "revert_block"
        /\ last'.seq # last.seq
        /\ block >= 1
        /\ last'.block = block - 1
        /\ last.tx.signer \in SendersOf(last'.txs))
       => /\ block' = last'.block
          /\ last.tx.signer \notin DOMAIN by_sender'
          /\ Hash(last.tx) \notin DOMAIN by_hash'
          /\ get(Hash(last.tx))' = None]_vars

\* C14: for every head, 0 included, a revert_block whose block argument is
\* not block - 1 does not abort and leaves by_hash and by_sender empty and
\* block equal to the argument.
C14_RevertGapResets ==
    [][(/\ last'.op = "revert_block"
        /\ last'.seq # last.seq
        /\ last'.block # block - 1)
       => /\ last'.res # "Panic"
          /\ ~aborted'
          /\ block' = last'.block
          /\ DOMAIN by_hash' = {}
          /\ DOMAIN by_sender' = {}]_vars

(***************************************************************************)
(* Answers of two pools to the same calls                                  *)
(***************************************************************************)

\* number of consecutive calls compared
MaxCalls == 2

PoolOf(b, bh, bs) == [block |-> b, by_hash |-> bh, by_sender |-> bs]

\* the calls a chain follower can make on a pool whose head is P.block
CallsAt(P) ==
    {[op |-> "import", tx |-> t] : t \in Transactions}
    \cup {[op |-> "get", tx |-> t] : t \in Transactions}
    \cup {[op |-> "erase", tx |-> NoTx]}
    \cup {[op |-> "apply_block", tx |-> NoTx] : b \in {P.block} \cap 0..(MaxBlock - 1)}
    \cup {[op |-> "revert_block", tx |-> NoTx] : b \in {P.block} \cap 1..MaxBlock}

\* the answer of pool P to call c and the pool it leaves
Exec(P, c) ==
    CASE c.op = "import" ->
           LET out == import(P.by_hash, P.by_sender, P.block, c.tx) IN
           [res |-> out.res, val |-> None,
            pool |-> PoolOf(P.block, out.by_hash, out.by_sender)]
      [] c.op = "get" ->
           [res |-> "Ok",
            val |-> IF Hash(c.tx) \in DOMAIN P.by_hash
                    THEN P.by_hash[Hash(c.tx)] ELSE None,
            pool |-> P]
      [] c.op = "erase" ->
           [res |-> "Ok", val |-> None, pool |-> PoolOf(P.block, EmptyMap, EmptyMap)]
      [] c.op = "apply_block" ->
           LET out == apply_block(P.by_hash, P.by_sender, P.block, overflow_checks,
                                  P.block + 1, Chain(P.block + 1)) IN
           [res |-> out.res, val |-> None,
            pool |-> PoolOf(out.block, out.by_hash, out.by_sender)]
      [] c.op = "revert_block" ->
           LET out == revert_block(P.by_hash, P.by_sender, P.block, overflow_checks,
                                   P.block - 1, Chain(P.block)) IN
           [res |-> out.res, val |-> None,
            pool |-> PoolOf(out.block, out.by_hash, out.by_sender)]

\* P and Q give the same answers to every sequence of at most n calls
RECURSIVE SameAnswers(_, _, _)
SameAnswers(P, Q, n) ==
    \/ n = 0
    \/ \A c \in CallsAt(P) :
          LET p == Exec(P, c)
              q == Exec(Q, c)
          IN
          /\ p.res = q.res
          /\ p.val = q.val
          /\ (p.res = "Panic" \/ SameAnswers(p.pool, q.pool, n - 1))

\* C17: when a failed import leaves an entry with an empty queue for a sender
\* that had none, the pool answers every following sequence of calls (import,
\* get, erase, and the chain's next apply_block or revert_block) exactly as
\* the pool without that entry does.
C17_EmptyEntryIsAbsent ==
    [][(/\ last'.op = "import"
        /\ last'.seq # last.seq
        /\ last'.res \in ImportErrors
        /\ last'.tx.signer \notin DOMAIN by_sender
        /\ last'.tx.signer \in DOMAIN by_sender'
        /\ by_sender'[last'.tx.signer].txs = <<>>)
       => SameAnswers(PoolOf(block', by_hash', by_sender'),
                      PoolOf(block', by_hash',
                             MapRemove(by_sender', {last'.tx.signer})),
                      MaxCalls)]_vars

\* after a failed import at head 0 the pool with the empty entry and the pool
\* without it agree
EmptyEntryIsAbsentAtHead0 ==
    [][(/\ last'.op = "import"
        /\ last'.seq # last.seq
        /\ last'.res \in ImportErrors
        /\ block' = 0
        /\ last'.tx.signer \notin DOMAIN by_sender
        /\ last'.tx.signer \in DOMAIN by_sender')
       => SameAnswers(PoolOf(block', by_hash', by_sender'),
                      PoolOf(block', by_hash',
                             MapRemove(by_sender', {last'.tx.signer})),
                      MaxCalls)]_vars

\* C18: when apply_block or revert_block has just removed a sender's entry,
\* importing again a transaction of that sender that was pending before the
\* call is not answered Ok(false).
C18_ResubmitAfterDropNotDuplicate ==
    [][(/\ last'.op \in {"apply_block", "revert_block"}
        /\ last'.seq # last.seq
        /\ last'.res = "Ok")
       => \A t \in Transactions :
             (/\ Hash(t) \in DOMAIN by_hash
              /\ t.signer \in DOMAIN by_sender
              /\ t.signer \notin DOMAIN by_sender')
             => import(by_hash', by_sender', block', t).res # "OkFalse"]_vars

\* C19: every entry of by_sender caches the nonce the provider reports for
\* that sender at the current head: the provider knows the sender at block
\* `block` and nonce_offset equals the nonce it reports there.
C19_CachedNonceIsProviderNonce ==
    \A a \in DOMAIN by_sender :
        /\ get_account_info(block, a) # None
        /\ by_sender[a].nonce_offset = get_account_info(block, a).nonce

\* in the current state none of the three assert!(by_hash.remove(..).is_some())
\* of apply_block_inner and revert_block_inner fails, whatever block body is
\* handed over
AssertionsHold ==
    \A body \in BlockBodies :
        LET groups == GroupBySender(body, EmptyMap) IN
        /\ groups # Err
              => CullSenders(by_hash, by_sender, groups, DOMAIN groups).res # "Panic"
        /\ DropSenders(by_hash, by_sender, body).res # "Panic"

\* C20: apply_block and revert_block never abort, whatever the state and the
\* arguments they are called with.
C20_BlockCallsNeverAbort ==
    [][(/\ last'.op \in {"apply_block", "revert_block"}
        /\ last'.seq # last.seq)
       => (last'.res # "Panic" /\ ~aborted')]_vars

====
